---- MODULE Spec2Model ----
(***************************************************************************)
(* Camera streaming over one TCP connection per peer.                      *)
(*   main_show_ver_2.py    CameraServer (aggregator): accept loop, one     *)
(*                         recv_data and one send_data thread per peer,    *)
(*                         shared registry fields guarded by self.lock.    *)
(*   main_camera_ver_2.py  CameraClient (peer): send_loop, receive_loop,   *)
(*                         wait_for_termination; Camera.capture_and_encode *)
(* Bytes are naturals 0..255, byte strings are sequences of bytes, Python  *)
(* None is the empty option <<>> and a present value x is <<x>>.           *)
(* Every lock-protected block of the code is one atomic step.              *)
(***************************************************************************)
EXTENDS Integers, Sequences, FiniteSets, TLC

\* ------------------------------------------------------------ bounds
\* camera captures one client performs before it stops capturing
MaxCaptures == 2
\* the same, where two clients run side by side
MaxCapturesEach == 1
\* the clock stops advancing at this time
MaxTime == 63
\* bytes the aggregator->peer direction of a connection can hold unread
DownCap == 1
\* bytes a peer that is not a CameraClient writes on its connection
MaxStreamLen == 11

\* --------------------------------------------------- program constants
DATA_TYPE_SIZE == 1
DATA_LEN_SIZE == 4
DATA_DECIMAL_SIZE == 8
timeout_limit == 60
HistoryMaxLen == 100
DefaultCameraRequest == 1
DefaultRequestedCamera == 1
TagC == 99
TagT == 116

\* the peers' addresses; a connection (the conn object) is named by its addr
Addrs == {"p1", "p2"}

None == <<>>
Some(x) == <<x>>

Min(x, y) == IF x <= y THEN x ELSE y

IsPrefix(s, t) == Len(s) <= Len(t) /\ SubSeq(t, 1, Len(s)) = s

\* ------------------------------------------------------------ struct
\* struct.pack('>B', n): one unsigned byte
PackB(n) == <<n>>

\* the byte taken for the ASCII digit of the number
UnpackB_digit(b) == b[1] - 48

\* struct.unpack('>B', b)[0]
UnpackB(b) == b[1]

\* struct.pack('>L', n): 4 bytes, most significant first
PackL(n) ==
    << (n \div 16777216) % 256, (n \div 65536) % 256, (n \div 256) % 256, n % 256 >>

\* struct.unpack('>L', b)[0]
UnpackL(b) == b[1] * 16777216 + b[2] * 65536 + b[3] * 256 + b[4]

RECURSIVE FloorLog2(_)
FloorLog2(n) == IF n <= 1 THEN 0 ELSE 1 + FloorLog2(n \div 2)

RECURSIVE Pow2(_)
Pow2(e) == IF e = 0 THEN 1 ELSE 2 * Pow2(e - 1)

\* struct.pack('>d', t) for a whole number of seconds 0 <= t < 2^20: the
\* IEEE-754 binary64 image, sign 0, biased exponent 1023 + floor(log2 t),
\* the fraction's top 20 bits, the low 32 fraction bits zero
PackD(t) ==
    IF t = 0 THEN <<0, 0, 0, 0, 0, 0, 0, 0>>
    ELSE LET e == FloorLog2(t)
             expo == 1023 + e
             frac == (t - Pow2(e)) * Pow2(20 - e)
         IN << expo \div 16, (expo % 16) * 16 + frac \div 65536,
               (frac \div 256) % 256, frac % 256, 0, 0, 0, 0 >>

\* struct.unpack('>d', b)[0] on the images PackD produces
UnpackD(b) ==
    LET expo == b[1] * 16 + b[2] \div 16
        frac == (b[2] % 16) * 65536 + b[3] * 256 + b[4]
    IN IF expo = 0 /\ frac = 0 THEN 0
       ELSE Pow2(expo - 1023) + frac \div Pow2(20 - (expo - 1023))

\* ------------------------------------------------------------ dict
\* A Python dict as the sequence of its items in insertion order.
DictHas(d, k) == \E i \in 1..Len(d) : d[i].k = k

DictGet(d, k) == d[CHOOSE i \in 1..Len(d) : d[i].k = k].v

\* d[k] = v keeping the earlier values of the key
DictSet_append(d, k, v) == Append(d, [k |-> k, v |-> v])

\* d[k] = v: an existing key keeps its place, a new key goes last
DictSet(d, k, v) ==
    IF DictHas(d, k)
    THEN [i \in 1..Len(d) |-> IF d[i].k = k THEN [k |-> k, v |-> v] ELSE d[i]]
    ELSE Append(d, [k |-> k, v |-> v])

\* del d[k] taken for d.clear()
DictDel_clear(d, k) == <<>>

\* if k in d: del d[k]
DictDel(d, k) == SelectSeq(d, LAMBDA it : it.k # k)

\* if x in l: l.remove(x)
ListRemove(l, x) ==
    IF \E i \in 1..Len(l) : l[i] = x
    THEN LET i == CHOOSE j \in 1..Len(l) : l[j] = x /\ \A h \in 1..(j - 1) : l[h] # x
         IN SubSeq(l, 1, i - 1) \o SubSeq(l, i + 1, Len(l))
    ELSE l

\* append on a deque without maxlen
DequeAppend_unbounded(q, x) == Append(q, x)

\* deque(maxlen=HistoryMaxLen).append(x)
DequeAppend(q, x) ==
    IF Len(q) >= HistoryMaxLen THEN Append(Tail(q), x) ELSE Append(q, x)


\* ------------------------------------------------------------ state
VARIABLES
    \* CameraServer fields
    timeout_sec,               \* constructor argument, the sockets' read timeout
    recv_data_running,         \* the server-wide running flag
    send_camera_request,       \* the packed selection byte
    active_clients,            \* list of accepted connections
    client_camera_data,        \* dict addr -> latest camera payload
    client_latency_time,       \* dict addr -> latest latency (ms)
    latency_history,           \* deque(maxlen=100) of latencies (ms)
    \* CameraServer.run (main thread)
    main_pc, start_time,
    \* recv_data / recv_all thread of each connection
    recv_pc, data, size, recv_started,
    \* send_data thread of each connection
    send_pc, msg,
    \* the connection: both ends and the bytes in flight in each direction
    sock, peer, wire_up, wire_down,
    \* CameraClient fields and threads
    loop_running, requested_camera_num, client_pc,
    send_loop_pc, current_request_num, target_camera_data, receive_loop_pc,
    \* the clock (whole time units)
    now,
    \* history: what each client captured and wrote, how many bytes the
    \* server has read from the connection, what it decoded, whether some
    \* recv_all call of the session needed more than one recv, and, per peer,
    \* since the last valid set_camera_request call: how many selection bytes
    \* fetched before that call the peer has still to read (None once it has
    \* read a byte fetched after it); the argument of the last call; the
    \* registry fields some thread has touched outside a `with self.lock`
    captured, sent, consumed, decoded, split, awaiting, last_request,
    unlocked_access

serverVars ==
    << timeout_sec, recv_data_running, send_camera_request, active_clients,
       client_camera_data, client_latency_time, latency_history >>
mainVars == << main_pc, start_time >>
recvVars == << recv_pc, data, size, recv_started >>
sendVars == << send_pc, msg >>
connVars == << sock, peer, wire_up, wire_down >>
clientVars ==
    << loop_running, requested_camera_num, client_pc, send_loop_pc,
       current_request_num, target_camera_data, receive_loop_pc >>
histVars ==
    << captured, sent, consumed, decoded, split, awaiting, last_request,
       unlocked_access >>
vars ==
    << serverVars, mainVars, recvVars, sendVars, connVars, clientVars, now, histVars >>

\* recv_data is inside one of its recv_all calls
RecvStates == {"tag", "len", "payload", "value"}

\* ------------------------------------------------------------ frames
\* A frame of the peer->aggregator stream: tag "c" with val the payload
\* bytes, or tag "t" with val = <<timestamp>>.
CameraFrame(payload) == [tag |-> "c", val |-> payload]
TimingPing(t) == [tag |-> "t", val |-> <<t>>]

\* capture_and_encode with the length field counting the 5 header bytes too
capture_and_encode_total_len(frame_data) ==
    IF frame_data # None /\ frame_data[1] # <<>>
    THEN Some(<<TagC>> \o PackL(Len(frame_data[1]) + 5) \o frame_data[1])
    ELSE None

\* Camera.capture_and_encode on the result frame_data of __encode_data
\* (None, or Some(bytes)): 'c' + 4-byte length + data, or None
capture_and_encode(frame_data) ==
    IF frame_data # None /\ frame_data[1] # <<>>
    THEN Some(<<TagC>> \o PackL(Len(frame_data[1])) \o frame_data[1])
    ELSE None

\* the bytes CameraClient.__timestamp_send writes at time t
timestamp_bytes(t) == <<TagT>> \o PackD(t)

\* the bytes the client writes for a frame
FrameBytes(f) ==
    IF f.tag = "c" THEN capture_and_encode(Some(f.val))[1] ELSE timestamp_bytes(f.val[1])

RECURSIVE StreamBytes(_)
StreamBytes(fs) == IF fs = <<>> THEN <<>> ELSE FrameBytes(Head(fs)) \o StreamBytes(Tail(fs))

\* how many leading frames of fs lie entirely within the first n bytes
RECURSIVE FramesWithin(_, _)
FramesWithin(fs, n) ==
    IF fs = <<>> \/ Len(FrameBytes(Head(fs))) > n THEN 0
    ELSE 1 + FramesWithin(Tail(fs), n - Len(FrameBytes(Head(fs))))


\* ---------------------------------------------------- CameraServer
\* set_camera_request with the lower limit of the range off by one
set_camera_request_from0(cur, camera_num) ==
    IF 0 <= camera_num /\ camera_num <= 9 THEN PackB(camera_num) ELSE cur

\* set_camera_request falling back to camera 1 on a value out of range
set_camera_request_fallback(cur, camera_num) ==
    IF 1 <= camera_num /\ camera_num <= 9 THEN PackB(camera_num)
    ELSE PackB(DefaultCameraRequest)

\* set_camera_request(camera_num): the new value of __send_camera_request
set_camera_request(cur, camera_num) ==
    IF 1 <= camera_num /\ camera_num <= 9 THEN PackB(camera_num) ELSE cur

\* display_thread_running()
display_thread_running == TRUE

\* get_latest_camera_data(): the first value of the dict, or None
get_latest_camera_data ==
    IF client_camera_data # <<>> THEN Some(client_camera_data[1].v) ELSE None

RECURSIVE SeqSum(_)
SeqSum(q) == IF q = <<>> THEN 0 ELSE Head(q) + SeqSum(Tail(q))

\* get_latest_latency_data(): sum(latency_history) / len(latency_history) as
\* the fraction num / den, or 0.0
get_latest_latency_data ==
    IF latency_history # <<>>
    THEN [num |-> SeqSum(latency_history), den |-> Len(latency_history)]
    ELSE [num |-> 0, den |-> 1]

\* the selection bytes of connection a that are fetched and not yet read
Pipeline(a) == wire_down[a] \o msg[a]

\* awaiting after a call of set_camera_request(camera_num)
AwaitingAfterCall(camera_num) ==
    IF camera_num \in 1..9
    THEN [a \in Addrs |-> IF sock[a] = "open" /\ peer[a] = "open"
                          THEN Some(Len(Pipeline(a))) ELSE awaiting[a]]
    ELSE awaiting

\* a call of set_camera_request from any thread
SetCameraRequest(camera_num) ==
    /\ main_pc # "done"
    /\ send_camera_request' = set_camera_request(send_camera_request, camera_num)
    /\ awaiting' = AwaitingAfterCall(camera_num)
    /\ last_request' = Some(camera_num)
    /\ UNCHANGED << timeout_sec, recv_data_running, active_clients, client_camera_data,
                    client_latency_time, latency_history, mainVars, recvVars, sendVars,
                    connVars, clientVars, now, captured, sent, consumed, decoded, split,
                    unlocked_access >>

\* --- recv_data(sock, addr) with its recv_all calls
\* while self.recv_data_running: enter recv_all for the tag, or leave the loop
RecvLoopCheck(a) ==
    /\ recv_pc[a] = "loop"
    /\ IF recv_data_running
       THEN /\ recv_pc' = [recv_pc EXCEPT ![a] = "tag"]
            /\ size' = [size EXCEPT ![a] = DATA_TYPE_SIZE]
            /\ recv_started' = [recv_started EXCEPT ![a] = now]
       ELSE /\ recv_pc' = [recv_pc EXCEPT ![a] = "finally"]
            /\ UNCHANGED << size, recv_started >>
    /\ UNCHANGED data
    /\ UNCHANGED << serverVars, mainVars, sendVars, connVars, clientVars, now, histVars >>

\* with self.lock: self.__client_camera_data[addr] = camera_data_bytes
StoreCamera(a, camera_data_bytes) ==
    /\ client_camera_data' = DictSet(client_camera_data, a, camera_data_bytes)
    /\ decoded' = [decoded EXCEPT ![a] = Append(@, CameraFrame(camera_data_bytes))]
    /\ recv_pc' = [recv_pc EXCEPT ![a] = "loop"]
    /\ data' = [data EXCEPT ![a] = <<>>]
    /\ size' = [size EXCEPT ![a] = 0]
    /\ UNCHANGED << client_latency_time, latency_history >>

\* latency_ms = (time.time() - client_timestamp) * 1000
latency_ms(server_receive_time, client_timestamp) ==
    (server_receive_time - client_timestamp) * 1000

\* with self.lock: latency_history.append(..); __client_latency_time[addr] = ..
StoreLatency(a, timestamp_bytes_) ==
    LET client_timestamp == UnpackD(timestamp_bytes_)
        l == latency_ms(now, client_timestamp)
    IN /\ latency_history' = DequeAppend(latency_history, l)
       /\ client_latency_time' = DictSet(client_latency_time, a, l)
       /\ decoded' = [decoded EXCEPT ![a] = Append(@, TimingPing(client_timestamp))]
       /\ recv_pc' = [recv_pc EXCEPT ![a] = "loop"]
       /\ data' = [data EXCEPT ![a] = <<>>]
       /\ size' = [size EXCEPT ![a] = 0]
       /\ UNCHANGED client_camera_data

\* recv_all has returned bytes d to recv_data at recv_pc[a]
RecvAllReturn_close_on_unknown(a, d) ==
    CASE recv_pc[a] = "tag" ->
           /\ IF d[1] = TagC
              THEN /\ recv_pc' = [recv_pc EXCEPT ![a] = "len"]
                   /\ size' = [size EXCEPT ![a] = DATA_LEN_SIZE]
              ELSE IF d[1] = TagT
              THEN /\ recv_pc' = [recv_pc EXCEPT ![a] = "value"]
                   /\ size' = [size EXCEPT ![a] = DATA_DECIMAL_SIZE]
              ELSE /\ recv_pc' = [recv_pc EXCEPT ![a] = "finally"]
                   /\ size' = [size EXCEPT ![a] = 0]
           /\ data' = [data EXCEPT ![a] = <<>>]
           /\ UNCHANGED << client_camera_data, client_latency_time, latency_history,
                           decoded >>
      [] recv_pc[a] = "len" ->
           LET data_length == UnpackL(d)
           IN IF data_length = 0
              THEN StoreCamera(a, <<>>)   \* recv_all(sock, 0) returns b'' at once
              ELSE /\ recv_pc' = [recv_pc EXCEPT ![a] = "payload"]
                   /\ size' = [size EXCEPT ![a] = data_length]
                   /\ data' = [data EXCEPT ![a] = <<>>]
                   /\ UNCHANGED << client_camera_data, client_latency_time,
                                   latency_history, decoded >>
      [] recv_pc[a] = "payload" -> StoreCamera(a, d)
      [] recv_pc[a] = "value" -> StoreLatency(a, d)

RecvAllReturn(a, d) ==
    CASE recv_pc[a] = "tag" ->
           /\ IF d[1] = TagC
              THEN /\ recv_pc' = [recv_pc EXCEPT ![a] = "len"]
                   /\ size' = [size EXCEPT ![a] = DATA_LEN_SIZE]
              ELSE IF d[1] = TagT
              THEN /\ recv_pc' = [recv_pc EXCEPT ![a] = "value"]
                   /\ size' = [size EXCEPT ![a] = DATA_DECIMAL_SIZE]
              ELSE /\ recv_pc' = [recv_pc EXCEPT ![a] = "loop"]
                   /\ size' = [size EXCEPT ![a] = 0]
           /\ data' = [data EXCEPT ![a] = <<>>]
           /\ UNCHANGED << client_camera_data, client_latency_time, latency_history,
                           decoded >>
      [] recv_pc[a] = "len" ->
           LET data_length == UnpackL(d)
           IN IF data_length = 0
              THEN StoreCamera(a, <<>>)   \* recv_all(sock, 0) returns b'' at once
              ELSE /\ recv_pc' = [recv_pc EXCEPT ![a] = "payload"]
                   /\ size' = [size EXCEPT ![a] = data_length]
                   /\ data' = [data EXCEPT ![a] = <<>>]
                   /\ UNCHANGED << client_camera_data, client_latency_time,
                                   latency_history, decoded >>
      [] recv_pc[a] = "payload" -> StoreCamera(a, d)
      [] recv_pc[a] = "value" -> StoreLatency(a, d)

\* data = packet for data += packet
recv_all_overwrite(d, packet) == packet

\* the bytes recv_all holds after sock.recv returned packet
recv_all_append(d, packet) == d \o packet

\* packet = sock.recv(size - len(data)) returns k >= 1 bytes
RecvAllPacket(a, k) ==
    /\ recv_pc[a] \in RecvStates
    /\ sock[a] = "open"
    /\ k \in 1..Min(size[a] - Len(data[a]), Len(wire_up[a]))
    /\ wire_up' = [wire_up EXCEPT ![a] = SubSeq(@, k + 1, Len(@))]
    /\ consumed' = [consumed EXCEPT ![a] = @ + k]
    /\ LET d == recv_all_append(data[a], SubSeq(wire_up[a], 1, k))
       IN IF Len(d) < size[a]
          THEN /\ data' = [data EXCEPT ![a] = d]
               /\ split' = [split EXCEPT ![a] = TRUE]
               /\ recv_started' = [recv_started EXCEPT ![a] = now]
               /\ UNCHANGED << recv_pc, size, client_camera_data, client_latency_time,
                               latency_history, decoded >>
          ELSE /\ RecvAllReturn(a, d)
               /\ recv_started' = [recv_started EXCEPT ![a] =
                                       IF recv_pc'[a] \in RecvStates THEN now ELSE 0]
               /\ UNCHANGED split
    /\ UNCHANGED << timeout_sec, recv_data_running, send_camera_request, active_clients,
                    mainVars, sendVars, sock, peer, wire_down, clientVars, now,
                    captured, sent, awaiting, last_request,
                    unlocked_access >>

\* sock.recv returns b'' (the peer closed and nothing is left to read), or
\* raises ConnectionResetError, or socket.timeout: no byte has arrived for
\* timeout_sec (bytes still in flight may be held up by the network)
RecvFails(a) ==
    \/ peer[a] = "closed" /\ wire_up[a] = <<>>
    \/ peer[a] = "reset"
    \/ peer[a] = "open" /\ now - recv_started[a] >= timeout_sec

\* recv_data storing what recv_all has read so far before it breaks
RecvAllFail_store_partial(a) ==
    /\ recv_pc[a] \in RecvStates
    /\ sock[a] = "open"
    /\ RecvFails(a)
    /\ client_camera_data' = DictSet(client_camera_data, a, data[a])
    /\ recv_pc' = [recv_pc EXCEPT ![a] = "finally"]
    /\ data' = [data EXCEPT ![a] = <<>>]
    /\ size' = [size EXCEPT ![a] = 0]
    /\ recv_started' = [recv_started EXCEPT ![a] = 0]
    /\ UNCHANGED << timeout_sec, recv_data_running, send_camera_request, active_clients,
                    client_latency_time, latency_history, mainVars, sendVars, connVars,
                    clientVars, now, histVars >>

\* recv_all returns None and recv_data breaks out of its loop
RecvAllFail(a) ==
    /\ recv_pc[a] \in RecvStates
    /\ sock[a] = "open"
    /\ RecvFails(a)
    /\ recv_pc' = [recv_pc EXCEPT ![a] = "finally"]
    /\ data' = [data EXCEPT ![a] = <<>>]
    /\ size' = [size EXCEPT ![a] = 0]
    /\ recv_started' = [recv_started EXCEPT ![a] = 0]
    /\ UNCHANGED << serverVars, mainVars, sendVars, connVars,
                    clientVars, now, histVars >>

\* the finally block without its del of the latency entry
RecvFinally_keep_latency(a) ==
    /\ recv_pc[a] = "finally"
    /\ active_clients' = ListRemove(active_clients, a)
    /\ client_camera_data' = DictDel(client_camera_data, a)
    /\ recv_pc' = [recv_pc EXCEPT ![a] = "close"]
    /\ UNCHANGED << timeout_sec, recv_data_running, send_camera_request, latency_history,
                    client_latency_time, mainVars, data, size, recv_started, sendVars,
                    connVars, clientVars, now, histVars >>

\* finally: with self.lock: remove sock from active_clients, del both entries
RecvFinally_drop_history(a) ==
    /\ recv_pc[a] = "finally"
    /\ active_clients' = ListRemove(active_clients, a)
    /\ client_camera_data' = DictDel(client_camera_data, a)
    /\ client_latency_time' = DictDel(client_latency_time, a)
    /\ latency_history' = <<>>
    /\ recv_pc' = [recv_pc EXCEPT ![a] = "close"]
    /\ UNCHANGED << timeout_sec, recv_data_running, send_camera_request,
                    mainVars, data, size, recv_started, sendVars, connVars, clientVars,
                    now, histVars >>

RecvFinally(a) ==
    /\ recv_pc[a] = "finally"
    /\ active_clients' = ListRemove(active_clients, a)
    /\ client_camera_data' = DictDel(client_camera_data, a)
    /\ client_latency_time' = DictDel(client_latency_time, a)
    /\ recv_pc' = [recv_pc EXCEPT ![a] = "close"]
    /\ UNCHANGED << timeout_sec, recv_data_running, send_camera_request, latency_history,
                    mainVars, data, size, recv_started, sendVars, connVars, clientVars,
                    now, histVars >>

\* the flag after: if not self.active_clients and not self.display_thread_running()
all_clients_left(running) ==
    IF active_clients = <<>> /\ ~display_thread_running THEN FALSE ELSE running

\* sock.close(), then the all-clients-left check (active_clients read unlocked)
RecvClose(a) ==
    /\ recv_pc[a] = "close"
    /\ sock' = [sock EXCEPT ![a] = "closed"]
    /\ wire_up' = [wire_up EXCEPT ![a] = <<>>]
    /\ recv_data_running' = all_clients_left(recv_data_running)
    /\ unlocked_access' = unlocked_access \cup {"active_clients"}
    /\ recv_pc' = [recv_pc EXCEPT ![a] = "done"]
    /\ UNCHANGED << timeout_sec, send_camera_request, active_clients, client_camera_data,
                    client_latency_time, latency_history, mainVars, data, size,
                    recv_started, sendVars, peer, wire_down, clientVars, now,
                    captured, sent, consumed, decoded, split, awaiting, last_request >>


\* --- send_data(sock, addr)
\* send_data sending the selection of construction, not the current one
SendDataRead_default(a) ==
    /\ send_pc[a] = "loop"
    /\ IF recv_data_running
       THEN /\ send_pc' = [send_pc EXCEPT ![a] = "send"]
            /\ msg' = [msg EXCEPT ![a] = PackB(DefaultCameraRequest)]
       ELSE /\ send_pc' = [send_pc EXCEPT ![a] = "done"]
            /\ UNCHANGED msg
    /\ UNCHANGED << serverVars, mainVars, recvVars, connVars, clientVars, now, histVars >>

\* while self.recv_data_running: with self.lock: msg = self.__send_camera_request
SendDataRead(a) ==
    /\ send_pc[a] = "loop"
    /\ IF recv_data_running
       THEN /\ send_pc' = [send_pc EXCEPT ![a] = "send"]
            /\ msg' = [msg EXCEPT ![a] = send_camera_request]
       ELSE /\ send_pc' = [send_pc EXCEPT ![a] = "done"]
            /\ UNCHANGED msg
    /\ UNCHANGED << serverVars, mainVars, recvVars, connVars, clientVars, now, histVars >>

\* sock.sendall(msg) succeeds; time.sleep(0.1)
SendDataSendall(a) ==
    /\ send_pc[a] = "send"
    /\ sock[a] = "open" /\ peer[a] = "open"
    /\ Len(wire_down[a]) < DownCap
    /\ wire_down' = [wire_down EXCEPT ![a] = @ \o msg[a]]
    /\ send_pc' = [send_pc EXCEPT ![a] = "loop"]
    /\ msg' = [msg EXCEPT ![a] = <<>>]
    /\ UNCHANGED << serverVars, mainVars, recvVars, sock, peer, wire_up,
                    clientVars, now, histVars >>

\* sock.sendall raises: BrokenPipeError or another socket.error (the peer is
\* gone, recv_data closed the socket, or the send timed out on a full buffer)
SendFails(a) ==
    \/ peer[a] \in {"closed", "reset"}
    \/ sock[a] = "closed"
    \/ Len(wire_down[a]) >= DownCap

SendDataFail_ends_session(a) ==
    /\ send_pc[a] = "send"
    /\ SendFails(a)
    /\ send_pc' = [send_pc EXCEPT ![a] = "done"]
    /\ msg' = [msg EXCEPT ![a] = <<>>]
    /\ recv_pc' = [recv_pc EXCEPT ![a] = IF @ = "done" THEN @ ELSE "finally"]
    /\ UNCHANGED << serverVars, mainVars, data, size, recv_started, connVars,
                    clientVars, now, histVars >>

SendDataFail(a) ==
    /\ send_pc[a] = "send"
    /\ SendFails(a)
    /\ send_pc' = [send_pc EXCEPT ![a] = "done"]
    /\ msg' = [msg EXCEPT ![a] = <<>>]
    /\ UNCHANGED << serverVars, mainVars, recvVars, connVars, clientVars, now,
                    histVars >>

\* --- run(): the accept loop, the display and the keyboard
\* cv2.waitKey(1) & 0xFF: no key (255), 'q' (113), '3' (51)
NoKey == 255
KeyQ == 113
Key0 == 48
Key1 == 49
Key9 == 57
Keys == {NoKey, KeyQ, 51}

\* conn, addr = server_socket.accept(); append under the lock; start both
\* threads; start_time = time.time()
MainAccept_keep_start(a) ==
    /\ main_pc = "accept"
    /\ sock[a] = "backlog"
    /\ active_clients' = Append(active_clients, a)
    /\ sock' = [sock EXCEPT ![a] = "open"]
    /\ recv_pc' = [recv_pc EXCEPT ![a] = "loop"]
    /\ send_pc' = [send_pc EXCEPT ![a] = "loop"]
    /\ start_time' = start_time
    /\ main_pc' = "display"
    /\ UNCHANGED << timeout_sec, recv_data_running, send_camera_request,
                    client_camera_data, client_latency_time, latency_history,
                    data, size, recv_started, msg, peer, wire_up, wire_down,
                    clientVars, now, histVars >>

MainAccept(a) ==
    /\ main_pc = "accept"
    /\ sock[a] = "backlog"
    /\ active_clients' = Append(active_clients, a)
    /\ sock' = [sock EXCEPT ![a] = "open"]
    /\ recv_pc' = [recv_pc EXCEPT ![a] = "loop"]
    /\ send_pc' = [send_pc EXCEPT ![a] = "loop"]
    /\ start_time' = now
    /\ main_pc' = "display"
    /\ UNCHANGED << timeout_sec, recv_data_running, send_camera_request,
                    client_camera_data, client_latency_time, latency_history,
                    data, size, recv_started, msg, peer, wire_up, wire_down,
                    clientVars, now, histVars >>

\* the idle test with >= for >
idle_timed_out_at_limit(clients, t, started) ==
    clients = <<>> /\ t - started >= timeout_limit

\* the idle test of the except socket.timeout branch
idle_timed_out(clients, t, started) ==
    clients = <<>> /\ t - started > timeout_limit

\* accept() times out after 0.01 s with no connection pending
MainAcceptTimeout ==
    /\ main_pc = "accept"
    /\ \A a \in Addrs : sock[a] # "backlog"
    /\ IF idle_timed_out(active_clients, now, start_time)
       THEN /\ recv_data_running' = FALSE
            /\ main_pc' = "exit"
       ELSE /\ main_pc' = "display"
            /\ UNCHANGED recv_data_running
    /\ UNCHANGED << timeout_sec, send_camera_request, active_clients, client_camera_data,
                    client_latency_time, latency_history, start_time, recvVars, sendVars,
                    connVars, clientVars, now, histVars >>

\* show_window, then Display.keyboard_processing(key), then
\* if not self.recv_data_running: break / while self.recv_data_running
MainDisplay(key) ==
    /\ main_pc = "display"
    /\ recv_data_running' = IF key = KeyQ THEN FALSE ELSE recv_data_running
    /\ IF key # KeyQ /\ Key1 <= key /\ key <= Key9
       THEN LET requested_cam == key - Key0
            IN /\ send_camera_request' =
                      set_camera_request(send_camera_request, requested_cam)
               /\ awaiting' = AwaitingAfterCall(requested_cam)
               /\ last_request' = Some(requested_cam)
       ELSE UNCHANGED << send_camera_request, awaiting, last_request >>
    /\ main_pc' = IF recv_data_running' THEN "accept" ELSE "exit"
    /\ UNCHANGED << timeout_sec, active_clients, client_camera_data, client_latency_time,
                    latency_history, start_time, recvVars, sendVars, connVars,
                    clientVars, now, captured, sent, consumed, decoded, split,
                    unlocked_access >>

\* except Exception around accept(): the flag is cleared and the loop left
MainAcceptError ==
    /\ main_pc = "accept"
    /\ recv_data_running' = FALSE
    /\ main_pc' = "exit"
    /\ UNCHANGED << timeout_sec, send_camera_request, active_clients, client_camera_data,
                    client_latency_time, latency_history, start_time, recvVars, sendVars,
                    connVars, clientVars, now, histVars >>

\* server_socket.close(); run() returns and the process ends: its daemon
\* threads stop where they are and its sockets are closed
MainExit ==
    /\ main_pc = "exit"
    /\ main_pc' = "done"
    /\ sock' = [a \in Addrs |-> IF sock[a] \in {"backlog", "open"} THEN "closed" ELSE sock[a]]
    /\ wire_up' = [a \in Addrs |-> <<>>]
    /\ recv_pc' = [a \in Addrs |-> IF recv_pc[a] \in {"none", "done"} THEN recv_pc[a] ELSE "killed"]
    /\ send_pc' = [a \in Addrs |-> IF send_pc[a] \in {"none", "done"} THEN send_pc[a] ELSE "killed"]
    /\ data' = [a \in Addrs |-> <<>>]
    /\ size' = [a \in Addrs |-> 0]
    /\ recv_started' = [a \in Addrs |-> 0]
    /\ msg' = [a \in Addrs |-> <<>>]
    /\ UNCHANGED << serverVars, start_time, peer, wire_down, clientVars, now,
                    histVars >>

\* the same in its two parts.  run() leaves its loop: server_socket.close(),
\* which resets the connections not yet accepted, cv2.destroyAllWindows() and
\* the return; the session threads and their sockets are not touched
MainReturn ==
    /\ main_pc = "exit"
    /\ main_pc' = "returned"
    /\ sock' = [a \in Addrs |-> IF sock[a] = "backlog" THEN "closed" ELSE sock[a]]
    /\ UNCHANGED << serverVars, start_time, recvVars, sendVars, peer, wire_up,
                    wire_down, clientVars, now, histVars >>

\* server.run() was the last statement of the program: the process ends, its
\* daemon threads stop where they are and its sockets are closed
ProcessExit ==
    /\ main_pc = "returned"
    /\ main_pc' = "done"
    /\ sock' = [a \in Addrs |-> IF sock[a] \in {"backlog", "open"} THEN "closed" ELSE sock[a]]
    /\ wire_up' = [a \in Addrs |-> <<>>]
    /\ recv_pc' = [a \in Addrs |-> IF recv_pc[a] \in {"none", "done"} THEN recv_pc[a] ELSE "killed"]
    /\ send_pc' = [a \in Addrs |-> IF send_pc[a] \in {"none", "done"} THEN send_pc[a] ELSE "killed"]
    /\ data' = [a \in Addrs |-> <<>>]
    /\ size' = [a \in Addrs |-> 0]
    /\ recv_started' = [a \in Addrs |-> 0]
    /\ msg' = [a \in Addrs |-> <<>>]
    /\ UNCHANGED << serverVars, start_time, peer, wire_down, clientVars, now,
                    histVars >>

\* time passes
Tick(d) ==
    /\ now + d <= MaxTime
    /\ now' = now + d
    /\ UNCHANGED << serverVars, mainVars, recvVars, sendVars, connVars, clientVars,
                    histVars >>


\* ---------------------------------------------------- CameraClient
\* the client's cameras are numbered 1..NumCameras (initialize_cameras)
NumCameras == 2

\* what __encode_data(__capture_camera(..)) can return: None, or JPEG bytes
FrameData == {None, Some(<<>>), Some(<<TagC>>), Some(<<TagT, 7>>)}

\* connect(): the connection is made and both loops are started
ClientConnect(a) ==
    /\ client_pc[a] = "init"
    /\ main_pc \notin {"returned", "done"}
    /\ peer' = [peer EXCEPT ![a] = "open"]
    /\ sock' = [sock EXCEPT ![a] = "backlog"]
    /\ send_loop_pc' = [send_loop_pc EXCEPT ![a] = "read"]
    /\ receive_loop_pc' = [receive_loop_pc EXCEPT ![a] = "loop"]
    /\ client_pc' = [client_pc EXCEPT ![a] = "wait"]
    /\ UNCHANGED << serverVars, mainVars, recvVars, sendVars, wire_up, wire_down,
                    loop_running, requested_camera_num, current_request_num,
                    target_camera_data, now, histVars >>

\* connect() raises (nobody listens): loop_running = False, the program ends
ClientConnectFail(a) ==
    /\ client_pc[a] = "init"
    /\ main_pc \in {"returned", "done"}
    /\ loop_running' = [loop_running EXCEPT ![a] = FALSE]
    /\ client_pc' = [client_pc EXCEPT ![a] = "done"]
    /\ UNCHANGED << serverVars, mainVars, recvVars, sendVars, connVars,
                    requested_camera_num, send_loop_pc, current_request_num,
                    target_camera_data, receive_loop_pc, now, histVars >>

\* wait_for_termination(): the wait ends because loop_running is False or by
\* KeyboardInterrupt (interrupt); finally: self.loop_running = False
ClientWaitEnd(a, interrupt) ==
    /\ client_pc[a] = "wait"
    /\ interrupt \/ ~loop_running[a]
    /\ loop_running' = [loop_running EXCEPT ![a] = FALSE]
    /\ client_pc' = [client_pc EXCEPT ![a] = "closing"]
    /\ UNCHANGED << serverVars, mainVars, recvVars, sendVars, connVars,
                    requested_camera_num, send_loop_pc, current_request_num,
                    target_camera_data, receive_loop_pc, now, histVars >>

\* the joins (timeout=1) are over; self.socket.close(); the program ends and
\* its daemon threads with it
ClientClose_leave_open(a) ==
    /\ client_pc[a] = "closing"
    /\ peer' = peer
    /\ wire_down' = [wire_down EXCEPT ![a] = <<>>]
    /\ send_loop_pc' = [send_loop_pc EXCEPT ![a] = IF @ = "done" THEN @ ELSE "killed"]
    /\ receive_loop_pc' = [receive_loop_pc EXCEPT ![a] = IF @ = "done" THEN @ ELSE "killed"]
    /\ client_pc' = [client_pc EXCEPT ![a] = "done"]
    /\ awaiting' = [awaiting EXCEPT ![a] = None]
    /\ UNCHANGED << serverVars, mainVars, recvVars, sendVars, sock, wire_up,
                    loop_running, requested_camera_num, current_request_num,
                    target_camera_data, now, captured, sent, consumed, decoded, split,
                    last_request, unlocked_access >>

ClientClose(a) ==
    /\ client_pc[a] = "closing"
    /\ peer' = [peer EXCEPT ![a] = "closed"]
    /\ wire_down' = [wire_down EXCEPT ![a] = <<>>]
    /\ send_loop_pc' = [send_loop_pc EXCEPT ![a] = IF @ = "done" THEN @ ELSE "killed"]
    /\ receive_loop_pc' = [receive_loop_pc EXCEPT ![a] = IF @ = "done" THEN @ ELSE "killed"]
    /\ client_pc' = [client_pc EXCEPT ![a] = "done"]
    /\ awaiting' = [awaiting EXCEPT ![a] = None]
    /\ UNCHANGED << serverVars, mainVars, recvVars, sendVars, sock, wire_up,
                    loop_running, requested_camera_num, current_request_num,
                    target_camera_data, now, captured, sent, consumed, decoded, split,
                    last_request, unlocked_access >>

\* the client machine or its link dies: the connection is reset and only the
\* first keep bytes still unread by the server remain readable
ClientCrash(a, keep) ==
    /\ client_pc[a] \in {"wait", "closing"}
    /\ keep \in 0..Len(wire_up[a])
    /\ peer' = [peer EXCEPT ![a] = "reset"]
    /\ wire_up' = [wire_up EXCEPT ![a] = SubSeq(@, 1, keep)]
    /\ wire_down' = [wire_down EXCEPT ![a] = <<>>]
    /\ send_loop_pc' = [send_loop_pc EXCEPT ![a] = IF @ = "done" THEN @ ELSE "killed"]
    /\ receive_loop_pc' = [receive_loop_pc EXCEPT ![a] = IF @ = "done" THEN @ ELSE "killed"]
    /\ client_pc' = [client_pc EXCEPT ![a] = "done"]
    /\ awaiting' = [awaiting EXCEPT ![a] = None]
    /\ UNCHANGED << serverVars, mainVars, recvVars, sendVars, sock, loop_running,
                    requested_camera_num, current_request_num, target_camera_data,
                    now, captured, sent, consumed, decoded, split,
                    last_request, unlocked_access >>

\* the server accepts any TCP peer: what sock.recv returns is whatever the
\* remote end wrote, here a byte that is no tag, or a well-formed frame
StrayWrites ==
    {<<0>>, <<120>>, timestamp_bytes(now), FrameBytes(CameraFrame(<<7>>))}

PeerWrite(a, bytes) ==
    /\ peer[a] = "open"
    /\ consumed[a] + Len(wire_up[a]) + Len(bytes) <= MaxStreamLen
    /\ wire_up' = [wire_up EXCEPT ![a] = @ \o bytes]
    /\ UNCHANGED << serverVars, mainVars, recvVars, sendVars, sock, peer, wire_down,
                    clientVars, now, histVars >>

\* --- send_loop()
\* while self.loop_running: with the lock: current_request_num = requested
SendLoopRead(a) ==
    /\ send_loop_pc[a] = "read"
    /\ IF loop_running[a]
       THEN /\ send_loop_pc' = [send_loop_pc EXCEPT ![a] = "capture"]
            /\ current_request_num' =
                   [current_request_num EXCEPT ![a] = requested_camera_num[a]]
       ELSE /\ send_loop_pc' = [send_loop_pc EXCEPT ![a] = "done"]
            /\ UNCHANGED current_request_num
    /\ UNCHANGED << serverVars, mainVars, recvVars, sendVars, connVars, loop_running,
                    requested_camera_num, client_pc, target_camera_data,
                    receive_loop_pc, now, histVars >>

\* the for loop over self.cameras: the camera with the requested number
\* captures and encodes frame_data; no such camera leaves None
find_and_capture(num, frame_data) ==
    IF num \in 1..NumCameras THEN capture_and_encode(frame_data) ELSE None

SendLoopCapture(a, frame_data, limit) ==
    /\ send_loop_pc[a] = "capture"
    /\ IF current_request_num[a] \in 1..NumCameras
       THEN /\ Len(captured[a]) < limit
            /\ captured' = [captured EXCEPT ![a] =
                   Append(@, [num |-> current_request_num[a], frame |-> frame_data])]
       ELSE UNCHANGED captured
    /\ LET t == find_and_capture(current_request_num[a], frame_data)
       IN /\ target_camera_data' = [target_camera_data EXCEPT ![a] = t]
          /\ send_loop_pc' = [send_loop_pc EXCEPT ![a] =
                                 IF t # None THEN "send_t" ELSE "reset"]
    /\ UNCHANGED << serverVars, mainVars, recvVars, sendVars, connVars, loop_running,
                    requested_camera_num, client_pc, current_request_num,
                    receive_loop_pc, now, sent, consumed, decoded, split, awaiting, last_request,
                    unlocked_access >>

\* else: with the lock: self.__requested_camera_num = 1; sleep; continue
SendLoopReset_keep(a) ==
    /\ send_loop_pc[a] = "reset"
    /\ send_loop_pc' = [send_loop_pc EXCEPT ![a] = "read"]
    /\ current_request_num' = [current_request_num EXCEPT ![a] = 0]
    /\ UNCHANGED << serverVars, mainVars, recvVars, sendVars, connVars, loop_running,
                    requested_camera_num, client_pc,
                    target_camera_data, receive_loop_pc, now, histVars >>

SendLoopReset(a) ==
    /\ send_loop_pc[a] = "reset"
    /\ requested_camera_num' =
           [requested_camera_num EXCEPT ![a] = DefaultRequestedCamera]
    /\ send_loop_pc' = [send_loop_pc EXCEPT ![a] = "read"]
    /\ current_request_num' = [current_request_num EXCEPT ![a] = 0]
    /\ UNCHANGED << serverVars, mainVars, recvVars, sendVars, connVars, loop_running,
                    client_pc, target_camera_data,
                    receive_loop_pc, now, histVars >>

\* sendall raises in send_loop: the server's end of the connection is closed
ClientSendFails(a) == sock[a] = "closed"

\* self.__timestamp_send(): sendall('t' + pack('>d', time.time()))
SendLoopTimestamp_skip(a) ==
    /\ send_loop_pc[a] = "send_t"
    /\ ~ClientSendFails(a)
    /\ send_loop_pc' = [send_loop_pc EXCEPT ![a] = "send_c"]
    /\ UNCHANGED << serverVars, mainVars, recvVars, sendVars, connVars,
                    loop_running, requested_camera_num, client_pc, current_request_num,
                    target_camera_data, receive_loop_pc, now, histVars >>

SendLoopTimestamp(a) ==
    /\ send_loop_pc[a] = "send_t"
    /\ ~ClientSendFails(a)
    /\ wire_up' = [wire_up EXCEPT ![a] = @ \o timestamp_bytes(now)]
    /\ sent' = [sent EXCEPT ![a] = Append(@, TimingPing(now))]
    /\ send_loop_pc' = [send_loop_pc EXCEPT ![a] = "send_c"]
    /\ UNCHANGED << serverVars, mainVars, recvVars, sendVars, sock, peer, wire_down,
                    loop_running, requested_camera_num, client_pc, current_request_num,
                    target_camera_data, receive_loop_pc, now, captured, consumed,
                    decoded, split, awaiting, last_request,
                    unlocked_access >>

\* self.socket.sendall(target_camera_data); time.sleep(0.01)
SendLoopCamera(a) ==
    /\ send_loop_pc[a] = "send_c"
    /\ ~ClientSendFails(a)
    /\ wire_up' = [wire_up EXCEPT ![a] = @ \o target_camera_data[a][1]]
    /\ sent' = [sent EXCEPT ![a] =
                   Append(@, CameraFrame(captured[a][Len(captured[a])].frame[1]))]
    /\ send_loop_pc' = [send_loop_pc EXCEPT ![a] = "read"]
    /\ target_camera_data' = [target_camera_data EXCEPT ![a] = None]
    /\ current_request_num' = [current_request_num EXCEPT ![a] = 0]
    /\ UNCHANGED << serverVars, mainVars, recvVars, sendVars, sock, peer, wire_down,
                    loop_running, requested_camera_num, client_pc,
                    receive_loop_pc, now, captured, consumed, decoded, split,
                    awaiting, last_request,
                    unlocked_access >>

\* except in send_loop: self.loop_running = False; break
SendLoopFail_keep_running(a) ==
    /\ send_loop_pc[a] \in {"send_t", "send_c"}
    /\ ClientSendFails(a)
    /\ send_loop_pc' = [send_loop_pc EXCEPT ![a] = "done"]
    /\ target_camera_data' = [target_camera_data EXCEPT ![a] = None]
    /\ current_request_num' = [current_request_num EXCEPT ![a] = 0]
    /\ UNCHANGED << serverVars, mainVars, recvVars, sendVars, connVars, loop_running,
                    requested_camera_num, client_pc,
                    receive_loop_pc, now, histVars >>

SendLoopFail(a) ==
    /\ send_loop_pc[a] \in {"send_t", "send_c"}
    /\ ClientSendFails(a)
    /\ loop_running' = [loop_running EXCEPT ![a] = FALSE]
    /\ send_loop_pc' = [send_loop_pc EXCEPT ![a] = "done"]
    /\ target_camera_data' = [target_camera_data EXCEPT ![a] = None]
    /\ current_request_num' = [current_request_num EXCEPT ![a] = 0]
    /\ UNCHANGED << serverVars, mainVars, recvVars, sendVars, connVars,
                    requested_camera_num, client_pc,
                    receive_loop_pc, now, histVars >>

\* --- receive_loop()
\* while self.loop_running:
ReceiveLoopCheck(a) ==
    /\ receive_loop_pc[a] = "loop"
    /\ receive_loop_pc' = [receive_loop_pc EXCEPT ![a] =
                              IF loop_running[a] THEN "recv" ELSE "done"]
    /\ UNCHANGED << serverVars, mainVars, recvVars, sendVars, connVars, loop_running,
                    requested_camera_num, client_pc, send_loop_pc, current_request_num,
                    target_camera_data, now, histVars >>

\* received_byte = self.socket.recv(1); with the lock:
\* self.__requested_camera_num = struct.unpack('>B', received_byte)[0]
ReceiveLoopByte(a) ==
    /\ receive_loop_pc[a] = "recv"
    /\ wire_down[a] # <<>>
    /\ LET received_byte == SubSeq(wire_down[a], 1, 1)
       IN requested_camera_num' =
              [requested_camera_num EXCEPT ![a] = UnpackB(received_byte)]
    /\ wire_down' = [wire_down EXCEPT ![a] = Tail(@)]
    /\ receive_loop_pc' = [receive_loop_pc EXCEPT ![a] = "loop"]
    /\ awaiting' = [awaiting EXCEPT ![a] =
                       IF @ = None \/ @ = Some(0) THEN None ELSE Some(@[1] - 1)]
    /\ UNCHANGED << serverVars, mainVars, recvVars, sendVars, sock, peer, wire_up,
                    loop_running, client_pc, send_loop_pc, current_request_num,
                    target_camera_data, now, captured, sent, consumed, decoded, split,
                    last_request, unlocked_access >>

\* recv(1) returns b'' or raises: self.loop_running = False; break
ReceiveLoopFail(a) ==
    /\ receive_loop_pc[a] = "recv"
    /\ wire_down[a] = <<>>
    /\ sock[a] = "closed"
    /\ loop_running' = [loop_running EXCEPT ![a] = FALSE]
    /\ receive_loop_pc' = [receive_loop_pc EXCEPT ![a] = "done"]
    /\ UNCHANGED << serverVars, mainVars, recvVars, sendVars, connVars,
                    requested_camera_num, client_pc, send_loop_pc, current_request_num,
                    target_camera_data, now, histVars >>


\* ------------------------------------------------------------ specifications
\* the state after CameraServer(timeout_sec=t) and one CameraClient per addr
\* the state after construction, or, with histories other than <<>>, after
\* earlier sessions have left their samples in the latency history
InitFrom(timeouts, histories) ==
    /\ timeout_sec \in timeouts
    /\ recv_data_running = TRUE
    /\ send_camera_request = PackB(DefaultCameraRequest)
    /\ active_clients = <<>>
    /\ client_camera_data = <<>>
    /\ client_latency_time = <<>>
    /\ latency_history \in histories
    /\ main_pc = "accept"
    /\ start_time = 0
    /\ recv_pc = [a \in Addrs |-> "none"]
    /\ data = [a \in Addrs |-> <<>>]
    /\ size = [a \in Addrs |-> 0]
    /\ recv_started = [a \in Addrs |-> 0]
    /\ send_pc = [a \in Addrs |-> "none"]
    /\ msg = [a \in Addrs |-> <<>>]
    /\ sock = [a \in Addrs |-> "none"]
    /\ peer = [a \in Addrs |-> "none"]
    /\ wire_up = [a \in Addrs |-> <<>>]
    /\ wire_down = [a \in Addrs |-> <<>>]
    /\ loop_running = [a \in Addrs |-> TRUE]
    /\ requested_camera_num = [a \in Addrs |-> DefaultRequestedCamera]
    /\ client_pc = [a \in Addrs |-> "init"]
    /\ send_loop_pc = [a \in Addrs |-> "none"]
    /\ current_request_num = [a \in Addrs |-> 0]
    /\ target_camera_data = [a \in Addrs |-> None]
    /\ receive_loop_pc = [a \in Addrs |-> "none"]
    /\ now = 0
    /\ captured = [a \in Addrs |-> <<>>]
    /\ sent = [a \in Addrs |-> <<>>]
    /\ consumed = [a \in Addrs |-> 0]
    /\ decoded = [a \in Addrs |-> <<>>]
    /\ split = [a \in Addrs |-> FALSE]
    /\ awaiting = [a \in Addrs |-> None]
    /\ last_request = None
    /\ unlocked_access = {}

InitWith(timeouts) == InitFrom(timeouts, {<<>>})

\* arguments set_camera_request is called with by other callers than the keyboard
RequestInputs == {0, 3, 10}

Init == InitWith({60})

\* recv_data's steps for connection a; chunked: sock.recv may return fewer
\* bytes than are asked for and available
RecvData(a, chunked) ==
    \/ RecvLoopCheck(a)
    \/ \E k \in 1..8 :
          /\ chunked \/ k = Min(size[a] - Len(data[a]), Len(wire_up[a]))
          /\ RecvAllPacket(a, k)
    \/ RecvAllFail(a)
    \/ RecvFinally(a)
    \/ RecvClose(a)

SendData(a) ==
    \/ SendDataRead(a)
    \/ SendDataSendall(a)
    \/ SendDataFail(a)

ClientMain(a) ==
    \/ ClientConnect(a)
    \/ ClientConnectFail(a)
    \/ \E i \in BOOLEAN : ClientWaitEnd(a, i)
    \/ ClientClose(a)

SendLoop(a, frames, limit) ==
    \/ SendLoopRead(a)
    \/ \E f \in frames : SendLoopCapture(a, f, limit)
    \/ SendLoopReset(a)
    \/ SendLoopTimestamp(a)
    \/ SendLoopCamera(a)
    \/ SendLoopFail(a)

ReceiveLoop(a) ==
    \/ ReceiveLoopCheck(a)
    \/ ReceiveLoopByte(a)
    \/ ReceiveLoopFail(a)

\* the keyboard and any other caller of set_camera_request
Requests ==
    \/ \E key \in Keys : MainDisplay(key)
    \/ \E v \in RequestInputs : SetCameraRequest(v)

\* the main thread's own steps
MainLoop ==
    \/ MainAcceptTimeout
    \/ MainAcceptError
    \/ \E key \in Keys : MainDisplay(key)
    \/ MainExit

\* One peer and the whole of both programs: every thread of the server and of
\* the client, the keyboard, the clock in steps of timeout_limit + 1.
\* recv returns all it can; the client captures at most MaxCapturesEach frames.
Next ==
    \/ MainAccept("p1")
    \/ MainLoop
    \/ RecvData("p1", FALSE)
    \/ SendData("p1")
    \/ ClientMain("p1")
    \/ ClientCrash("p1", 0)
    \/ SendLoop("p1", {Some(<<7>>)}, MaxCapturesEach)
    \/ ReceiveLoop("p1")
    \/ Tick(timeout_limit + 1)

Spec == Init /\ [][Next]_vars

\* Two peers side by side. p1 runs a whole session (frames, its send_data
\* thread, orderly close or crash); p2 connects, is served by its recv_data
\* thread and may crash. The clients' receive loops stand still; the clock
\* moves in steps of timeout_limit + 1.
NextPair ==
    \/ \E a \in Addrs : MainAccept(a)
    \/ MainAcceptTimeout
    \/ \E key \in {NoKey, KeyQ} : MainDisplay(key)
    \/ MainExit
    \/ \E a \in Addrs : RecvData(a, FALSE)
    \/ SendData("p1")
    \/ ClientMain("p1")
    \/ ClientConnect("p2")
    \/ \E a \in Addrs : ClientCrash(a, 0)
    \/ SendLoop("p1", {None, Some(<<7>>)}, MaxCapturesEach)
    \/ Tick(timeout_limit + 1)

SpecPair == Init /\ [][NextPair]_vars

\* The peer->aggregator stream of one connection under every chunking: the
\* client's send loop with every kind of captured data, recv_data with recv
\* returning any number of bytes, the connection closed, or cut after any
\* number of bytes read.
NextCodec ==
    \/ MainAccept("p1")
    \/ RecvData("p1", TRUE)
    \/ ClientConnect("p1")
    \/ \E i \in BOOLEAN : ClientWaitEnd("p1", i)
    \/ ClientClose("p1")
    \/ ClientCrash("p1", 0)
    \/ SendLoop("p1", FrameData, MaxCaptures)
    \/ Tick(timeout_limit + 1)

SpecCodec == Init /\ [][NextCodec]_vars

\* The selection path of one connection: the keyboard and other callers of
\* set_camera_request, the send_data thread, the client's receive loop, and
\* the client's send loop up to its reset of the requested index (the camera
\* read of an existing camera does not return).
NextSel ==
    \/ MainAccept("p1")
    \/ MainAcceptTimeout
    \/ MainExit
    \/ Requests
    \/ SendData("p1")
    \/ ClientConnect("p1")
    \/ ClientCrash("p1", 0)
    \/ SendLoopRead("p1")
    \/ SendLoopCapture("p1", None, 0)
    \/ SendLoopReset("p1")
    \/ ReceiveLoop("p1")

SpecSel == Init /\ [][NextSel]_vars

\* The accept loop with no peer at all, the clock in unit steps, for several
\* values of the constructor's timeout_sec.
InitIdle == InitWith({1, 5, 60})

NextIdle ==
    \/ MainAcceptTimeout
    \/ \E key \in {NoKey, 51} : MainDisplay(key)
    \/ MainExit
    \/ Tick(1)

SpecIdle == InitIdle /\ [][NextIdle]_vars


\* The broadcast of the selection to two peers: the accept loop and the
\* keyboard, the send_data thread of each session, each client's receive
\* loop; a peer may be cut off. The server's send_data threads are scheduled
\* fairly; a peer is free not to read.
NextCast ==
    \/ \E a \in Addrs : MainAccept(a)
    \/ MainAcceptTimeout
    \/ \E key \in Keys : MainDisplay(key)
    \/ MainExit
    \/ \E a \in Addrs : SendData(a)
    \/ \E a \in Addrs : ClientConnect(a)
    \/ \E a \in Addrs : ClientCrash(a, 0)
    \/ \E a \in Addrs : ReceiveLoop(a)

SpecCast == Init /\ [][NextCast]_vars /\ \A a \in Addrs : WF_vars(SendData(a))

\* The registry filled by two peers: p1 sends up to MaxCaptures frames with
\* two different payloads, p2 up to MaxCapturesEach with a third (or fails
\* to capture); each is served by its recv_data thread, p2 may be cut off;
\* the main loop polls and displays.
NextFrames ==
    \/ \E a \in Addrs : MainAccept(a)
    \/ MainAcceptTimeout
    \/ MainDisplay(NoKey)
    \/ \E a \in Addrs : RecvData(a, FALSE)
    \/ \E a \in Addrs : ClientConnect(a)
    \/ ClientCrash("p2", 0)
    \/ \E a \in Addrs : SendLoopRead(a) \/ SendLoopReset(a)
    \/ \E a \in Addrs : SendLoopTimestamp(a) \/ SendLoopCamera(a)
    \/ \E f \in {Some(<<7>>), Some(<<8>>)} : SendLoopCapture("p1", f, MaxCaptures)
    \/ \E f \in {None, Some(<<9>>)} : SendLoopCapture("p2", f, MaxCapturesEach)

SpecFrames == Init /\ [][NextFrames]_vars

\* The latency history at its limit: the server starts with the history
\* empty, or one short of full with the samples of earlier sessions (0 and
\* 61000 ms in turn); two peers send their timestamps and frames while the
\* clock moves; no connection fails.
EarlierSamples(n) ==
    [i \in 1..n |-> IF i % 2 = 1 THEN 0 ELSE latency_ms(timeout_limit + 1, 0)]

InitLatency ==
    InitFrom({60}, {EarlierSamples(n) : n \in {0, HistoryMaxLen - 1}})

NextLatency ==
    \/ \E a \in Addrs : MainAccept(a)
    \/ MainDisplay(NoKey)
    \/ \E a \in Addrs : RecvLoopCheck(a)
    \/ \E a \in Addrs :
          RecvAllPacket(a, Min(size[a] - Len(data[a]), Len(wire_up[a])))
    \/ \E a \in Addrs : ClientConnect(a)
    \/ \E a \in Addrs : SendLoopRead(a)
    \/ \E a \in Addrs : SendLoopTimestamp(a) \/ SendLoopCamera(a)
    \/ SendLoopCapture("p1", Some(<<7>>), MaxCapturesEach)
    \/ SendLoopCapture("p2", Some(<<9>>), MaxCapturesEach)
    \/ Tick(timeout_limit + 1)

SpecLatency == InitLatency /\ [][NextLatency]_vars

\* one session whose peer writes frames and stray bytes
NextStray ==
    \/ MainAccept("p1")
    \/ MainDisplay(NoKey)
    \/ RecvData("p1", FALSE)
    \/ ClientConnect("p1")
    \/ ClientCrash("p1", 0)
    \/ \E bytes \in StrayWrites : PeerWrite("p1", bytes)
    \/ Tick(timeout_limit + 1)

SpecStray == Init /\ [][NextStray]_vars

\* one CameraClient with both its loops and its main thread, against a
\* server that sends selections, takes keys and quits
NextAgent ==
    \/ MainAccept("p1")
    \/ \E key \in Keys : MainDisplay(key)
    \/ MainExit
    \/ SendData("p1")
    \/ ClientConnect("p1")
    \/ \E i \in BOOLEAN : ClientWaitEnd("p1", i)
    \/ ClientClose("p1")
    \/ SendLoop("p1", {None, Some(<<7>>)}, MaxCaptures)
    \/ ReceiveLoop("p1")

SpecAgent == Init /\ [][NextAgent]_vars

\* the same, every thread of the client being scheduled again and again: the
\* wait loop polls the flag each second, the joins time out after a second
SpecAgentFair ==
    /\ SpecAgent
    /\ WF_vars(ClientWaitEnd("p1", FALSE))
    /\ WF_vars(ClientClose("p1"))
    /\ WF_vars(SendLoop("p1", {None, Some(<<7>>)}, MaxCaptures))
    /\ WF_vars(ReceiveLoop("p1"))

\* the accept loop with its idle timeout, and a peer that comes and goes
NextWindow ==
    \/ MainAccept("p1")
    \/ MainAcceptTimeout
    \/ MainDisplay(NoKey)
    \/ MainExit
    \/ RecvLoopCheck("p1")
    \/ RecvAllFail("p1")
    \/ RecvFinally("p1")
    \/ RecvClose("p1")
    \/ ClientConnect("p1")
    \/ ClientCrash("p1", 0)
    \/ \E d \in {1, timeout_limit} : Tick(d)

SpecWindow == Init /\ [][NextWindow]_vars

\* the two loops of a client side by side, the user asking for camera 2, which
\* the client has, or camera 3, which it has not
NextRace ==
    \/ MainAccept("p1")
    \/ \E key \in {NoKey, Key1 + 1, Key1 + 2} : MainDisplay(key)
    \/ SendData("p1")
    \/ ClientConnect("p1")
    \/ SendLoopRead("p1")
    \/ \E f \in {None, Some(<<7>>)} : SendLoopCapture("p1", f, MaxCapturesEach)
    \/ SendLoopReset("p1")
    \/ SendLoopTimestamp("p1")
    \/ SendLoopCamera("p1")
    \/ ReceiveLoopCheck("p1")
    \/ ReceiveLoopByte("p1")

SpecRace == Init /\ [][NextRace]_vars

\* one session from connection to the end of both programs
NextShutdown ==
    \/ MainAccept("p1")
    \/ \E key \in {NoKey, KeyQ} : MainDisplay(key)
    \/ MainAcceptError
    \/ MainReturn
    \/ ProcessExit
    \/ RecvData("p1", FALSE)
    \/ SendData("p1")
    \/ ClientMain("p1")
    \/ SendLoop("p1", {None, Some(<<7>>)}, MaxCapturesEach)
    \/ ReceiveLoop("p1")

\* every thread is scheduled again and again; the main thread of the server
\* goes on to the end of the program once it has left its loop
SpecShutdown ==
    /\ Init /\ [][NextShutdown]_vars
    /\ WF_vars(MainReturn) /\ WF_vars(ProcessExit)
    /\ WF_vars(RecvData("p1", FALSE)) /\ WF_vars(SendData("p1"))
    /\ WF_vars(ClientWaitEnd("p1", FALSE)) /\ WF_vars(ClientClose("p1"))
    /\ WF_vars(SendLoop("p1", {None, Some(<<7>>)}, MaxCapturesEach))
    /\ WF_vars(ReceiveLoop("p1"))

\* ================================================================ claims
\* ---------------------------------------------------------------- C1
\* C1: the selection __send_camera_request always holds one byte whose value
\* is in 1..9, whatever integers set_camera_request is called with and
\* however the calls interleave with the sessions.
C1_SelectionInRange ==
    /\ Len(send_camera_request) = DATA_TYPE_SIZE
    /\ send_camera_request[1] \in 1..9

\* a session is being served, camera 3 has been selected and the last call,
\* with 0, has been refused
C1_Witness ==
    /\ last_request = Some(0)
    /\ send_camera_request = PackB(3)
    /\ send_pc["p1"] = "send"

\* ---------------------------------------------------------------- C2
\* the registry of the server apart from the selection
registry == << active_clients, client_camera_data, client_latency_time,
               latency_history, recv_data_running >>

\* a step in which set_camera_request is called with another argument than
\* in the call before
CallStep == last_request' # last_request

\* C2: a call of set_camera_request with a value in 1..9 makes the selection
\* that value (the last valid call wins); a call with any other value leaves
\* the selection as it was; no call touches any other field of the registry.
C2_SetCameraRequest ==
    [][CallStep =>
          LET camera_num == last_request'[1]
          IN /\ camera_num \in 1..9 => send_camera_request' = PackB(camera_num)
             /\ camera_num \notin 1..9 => send_camera_request' = send_camera_request
             /\ registry' = registry]_vars

\* camera 3 was selected, then 10 was asked for and refused
C2_Witness ==
    /\ last_request = Some(10)
    /\ send_camera_request = PackB(3)

\* ---------------------------------------------------------------- C10
\* the step in which the receive loop of peer a reads a byte
ReadStep(a) == receive_loop_pc[a] = "recv" /\ receive_loop_pc'[a] = "loop"

\* C10 as stated: after a valid call set_camera_request(v) the very next byte
\* the peer reads is v, so its requested index becomes v.
C10_NextByteIsRequest ==
    [][\A a \in Addrs :
          ReadStep(a) /\ awaiting[a] # None =>
              PackB(requested_camera_num'[a]) = send_camera_request]_vars

\* C10 amended: every read sets the requested index to the byte read, the
\* head of the stream; the bytes fetched or sent before the call come first,
\* and the first byte fetched after the call is v.
C10_FreshByteIsRequest ==
    [][\A a \in Addrs :
          ReadStep(a) =>
              /\ PackB(requested_camera_num'[a]) = SubSeq(wire_down[a], 1, 1)
              /\ awaiting[a] = Some(0) =>
                     PackB(requested_camera_num'[a]) = send_camera_request]_vars

\* the peer has read the byte fetched after the call that selected camera 3
C10_Witness ==
    /\ last_request = Some(3)
    /\ awaiting["p1"] = None
    /\ requested_camera_num["p1"] = 3
    /\ receive_loop_pc["p1"] = "loop"

\* ---------------------------------------------------------------- C7
\* the step in which accept() times out and the idle test is made
PollStep == main_pc = "accept" /\ main_pc' # "accept"

\* C7 as stated: with no peer ever connected, the accept loop stops and the
\* flag is cleared once timeout_sec, the constructor's timeout, has elapsed
\* since start.
C7_IdleWindowIsTimeoutSec ==
    [][PollStep /\ active_clients = <<>> /\ now - start_time > timeout_sec =>
          ~recv_data_running' /\ main_pc' = "exit"]_vars

\* C7 amended: with no peer ever connected, the accept loop stops and the
\* flag is cleared at the first poll more than timeout_limit = 60 after start
\* and at no poll before, whatever timeout_sec the server was constructed with.
C7_IdleWindowIsTimeoutLimit ==
    [][PollStep /\ active_clients = <<>> =>
          IF now - start_time > timeout_limit
          THEN ~recv_data_running' /\ main_pc' = "exit"
          ELSE recv_data_running' = recv_data_running /\ main_pc' = "display"]_vars

\* a server constructed with timeout_sec = 1 has stopped for idleness, at 61
C7_Witness ==
    /\ timeout_sec = 1
    /\ ~recv_data_running
    /\ main_pc = "exit"
    /\ now = timeout_limit + 1

\* ---------------------------------------------------------------- C8
\* some session has terminated and none is left
LastPeerLeft ==
    /\ active_clients = <<>>
    /\ \E a \in Addrs : recv_pc[a] = "done"
    /\ \A a \in Addrs : recv_pc[a] \in {"none", "done"}

\* C8 as stated: when the last connected peer's session has terminated, the
\* running flag has been cleared as part of that termination.
C8_LastPeerClearsFlag == LastPeerLeft => ~recv_data_running

\* ---------------------------------------------------------------- C3
\* sock of connection a is in the list
InList(l, a) == \E i \in DOMAIN l : l[i] = a

\* recv_data of connection a has been started and has not run its cleanup
SessionLive(a) == recv_pc[a] \in {"loop", "finally"} \cup RecvStates

\* C3: as long as the server process lives, the socket of a peer is in
\* active_clients exactly while its recv_data has not terminated (has not
\* run its cleanup), and a frame or a latency is stored under its address
\* only then: nothing is stored, or stored again, after the termination.
C3_EntryIffLoopAlive ==
    main_pc # "done" =>
        \A a \in Addrs :
            /\ InList(active_clients, a) <=> SessionLive(a)
            /\ DictHas(client_camera_data, a) => SessionLive(a)
            /\ DictHas(client_latency_time, a) => SessionLive(a)

\* the session of p1 stored a frame and a latency and has terminated; nothing
\* of it is left while p2 is still served
C3_Witness ==
    /\ main_pc # "done"
    /\ recv_pc["p1"] = "done"
    /\ \E i, j \in DOMAIN decoded["p1"] :
          decoded["p1"][i].tag = "c" /\ decoded["p1"][j].tag = "t"
    /\ ~InList(active_clients, "p1")
    /\ ~DictHas(client_camera_data, "p1")
    /\ ~DictHas(client_latency_time, "p1")
    /\ InList(active_clients, "p2")

\* ---------------------------------------------------------------- C9
\* a step of session a that follows a failure of its socket: recv_all has
\* returned None, the cleanup, the close, or sendall has raised
FailureStep(a) ==
    \/ /\ recv_pc[a] \in RecvStates \cup {"finally", "close"}
       /\ recv_pc'[a] \in {"finally", "close", "done"}
       /\ recv_pc'[a] # recv_pc[a]
    \/ send_pc[a] = "send" /\ send_pc'[a] = "done"

\* what the server holds for peer b
SessionOf(b) ==
    << InList(active_clients, b),
       SelectSeq(client_camera_data, LAMBDA e : e.k = b),
       SelectSeq(client_latency_time, LAMBDA e : e.k = b),
       recv_pc[b], send_pc[b], sock[b] >>

\* C9: a failure on the socket of one session, with another peer connected,
\* does not clear the running flag, does not stop the main (accept) loop,
\* and leaves the other peer's registry entries, threads and socket as they
\* were.
C9_FailureIsolation ==
    [][\A a \in Addrs :
          FailureStep(a) /\ (\E b \in Addrs \ {a} : InList(active_clients, b)) =>
              /\ recv_data_running' = recv_data_running
              /\ main_pc' = main_pc
              /\ \A b \in Addrs \ {a} : SessionOf(b)' = SessionOf(b)]_vars

\* the connection of p2 was reset and its session has terminated; p1 is still
\* served, its frame is still stored, the server still runs
C9_Witness ==
    /\ peer["p2"] = "reset"
    /\ recv_pc["p2"] = "done"
    /\ InList(active_clients, "p1")
    /\ DictHas(client_camera_data, "p1")
    /\ recv_pc["p1"] \in RecvStates
    /\ recv_data_running
    /\ main_pc \in {"accept", "display"}

\* ---------------------------------------------------------------- C4
\* the payloads of the camera frames among fs
CamPayloads(fs) ==
    LET cs == SelectSeq(fs, LAMBDA f : f.tag = "c")
    IN [i \in DOMAIN cs |-> cs[i].val]

\* the payloads handed to the encoder by the send loop of a: what the
\* captures returned, failed captures (None) left out
CapturedPayloads(a) ==
    LET cs == SelectSeq(captured[a], LAMBDA c : c.frame # None)
    IN [i \in DOMAIN cs |-> cs[i].frame[1]]

NonEmpty(ps) == SelectSeq(ps, LAMBDA x : x # <<>>)

\* the connection of a is up, its send loop is between two frames and the
\* server has read all that was sent
AllDelivered(a) ==
    /\ peer[a] = "open"
    /\ sock[a] = "open"
    /\ send_loop_pc[a] \in {"read", "capture", "reset"}
    /\ wire_up[a] = <<>>
    /\ recv_pc[a] \in RecvStates \cup {"loop"}

\* C4 as stated: every payload given to the encoder, the empty one included,
\* is decoded into one camera frame with that payload.
C4_EveryPayloadRoundTrips ==
    \A a \in Addrs :
        AllDelivered(a) => CamPayloads(decoded[a]) = CapturedPayloads(a)

\* C4 amended: every non-empty payload given to the encoder is decoded into
\* exactly one camera frame with that payload, in order, and the payload
\* stored for the peer is the last of them; for the empty payload the
\* encoder returns None and nothing is sent.
C4_NonEmptyPayloadRoundTrips ==
    \A a \in Addrs :
        LET ps == NonEmpty(CapturedPayloads(a))
            ds == CamPayloads(decoded[a])
        IN /\ IsPrefix(ds, ps)
           /\ AllDelivered(a) =>
                 /\ recv_pc[a] \in {"tag", "loop"}
                 /\ ds = ps
                 /\ ps # <<>> =>
                       /\ DictHas(client_camera_data, a)
                       /\ DictGet(client_camera_data, a) = ps[Len(ps)]

\* an empty and a non-empty payload were captured, the stream was read in
\* pieces, and the one frame sent has been decoded and stored
C4_Witness ==
    /\ AllDelivered("p1")
    /\ split["p1"]
    /\ \E i \in DOMAIN captured["p1"] : captured["p1"][i].frame = Some(<<>>)
    /\ CamPayloads(decoded["p1"]) = << <<TagT, 7>> >>
    /\ DictGet(client_camera_data, "p1") = <<TagT, 7>>

\* ---------------------------------------------------------------- C5
\* the frames of the stream sent by a that lie within the bytes read so far
FramesRead(a) == SubSeq(sent[a], 1, FramesWithin(sent[a], consumed[a]))

\* C5: however sock.recv cuts the stream of 'c' and 't' frames, recv_all
\* collects exactly the next bytes of the stream, and the frames decoded so
\* far are exactly the frames sent that lie within the bytes read, with the
\* payloads and timestamps sent: the same as for the stream in one piece.
C5_ChunkingIndependence ==
    \A a \in Addrs :
        /\ decoded[a] = FramesRead(a)
        /\ Len(data[a]) <= consumed[a]
        /\ data[a] = SubSeq(StreamBytes(sent[a]),
                            consumed[a] - Len(data[a]) + 1, consumed[a])
        /\ recv_pc[a] \in RecvStates => Len(data[a]) < size[a]
        /\ recv_pc[a] \in {"tag", "loop"} /\ sock[a] = "open" =>
              consumed[a] = Len(StreamBytes(FramesRead(a)))

\* MaxCaptures frames with their timestamps were read in pieces and decoded
C5_Witness ==
    /\ split["p1"]
    /\ AllDelivered("p1")
    /\ Len(sent["p1"]) >= 4
    /\ decoded["p1"] = sent["p1"]

\* ---------------------------------------------------------------- C6
\* recv_data of a is inside a frame: the tag is read, the frame is not
MidFrame(a) == recv_pc[a] \in {"len", "payload", "value"}

\* the peer's end is gone and nothing is left to read
ConnectionLost(a) == peer[a] \in {"closed", "reset"} /\ wire_up[a] = <<>>

\* C6: when the connection is lost inside a frame the only step left to
\* recv_data is the one that ends the loop; a stored frame is always the
\* last camera frame received whole, never an incomplete one; and once
\* recv_data has run its cleanup the registry holds no socket, frame or
\* latency of that peer.
C6_MidFrameClose ==
    \A a \in Addrs :
        /\ MidFrame(a) /\ ConnectionLost(a) /\ sock[a] = "open" =>
              /\ ENABLED RecvAllFail(a)
              /\ ~ENABLED (\E k \in 1..8 : RecvAllPacket(a, k))
        /\ DictHas(client_camera_data, a) =>
              LET ps == CamPayloads(FramesRead(a))
              IN ps # <<>> /\ DictGet(client_camera_data, a) = ps[Len(ps)]
        /\ recv_pc[a] \in {"close", "done"} =>
              /\ \A i \in DOMAIN active_clients : active_clients[i] # a
              /\ ~DictHas(client_camera_data, a)
              /\ ~DictHas(client_latency_time, a)

\* the connection was cut inside a frame after a whole frame had been
\* stored; recv_data has ended and nothing of the peer is left
C6_Witness ==
    /\ peer["p1"] = "reset"
    /\ recv_pc["p1"] = "done"
    /\ CamPayloads(decoded["p1"]) # <<>>
    /\ Len(StreamBytes(FramesRead("p1"))) < consumed["p1"]
    /\ active_clients = <<>>
    /\ client_camera_data = <<>>
    /\ client_latency_time = <<>>

\* ---------------------------------------------------------------- C11
\* send_data of a reads the selection / writes to the socket
FetchStep(a) == send_pc[a] = "loop" /\ send_pc'[a] = "send"
WriteStep(a) == send_pc[a] = "send" /\ send_pc'[a] = "loop"

\* every byte written is the one shared selection as read in that iteration
BroadcastsSelection ==
    [][\A a \in Addrs :
          /\ FetchStep(a) => msg'[a] = send_camera_request
          /\ WriteStep(a) =>
                /\ wire_down'[a] = wire_down[a] \o msg[a]
                /\ Len(msg[a]) = DATA_TYPE_SIZE
                /\ msg[a][1] \in 1..9]_vars

\* the peer is connected and the server is running
Connected(a) == sock[a] = "open" /\ peer[a] = "open" /\ recv_data_running

UniqueKeys(d) == \A i, j \in DOMAIN d : d[i].k = d[j].k => i = j

\* C12: the registry holds at most one payload per peer, the one of the
\* camera frame received last from it, as long as its session is there;
\* get_latest_camera_data returns None when no frame is stored and otherwise
\* the payload stored for a peer whose session has not been removed.
C12_LatestFrameOnly ==
    /\ UniqueKeys(client_camera_data)
    /\ \A a \in Addrs :
          LET ps == CamPayloads(decoded[a])
          IN /\ DictHas(client_camera_data, a) =>
                   ps # <<>> /\ DictGet(client_camera_data, a) = ps[Len(ps)]
             /\ SessionLive(a) /\ ps # <<>> => DictHas(client_camera_data, a)
    /\ IF client_camera_data = <<>>
       THEN get_latest_camera_data = None
       ELSE \E a \in Addrs :
               /\ SessionLive(a)
               /\ DictHas(client_camera_data, a)
               /\ get_latest_camera_data = Some(DictGet(client_camera_data, a))

\* p1 sent 7 then 8, p2 sent 9 and its session has been removed: 8 is what
\* is stored and returned
C12_Witness ==
    /\ CamPayloads(decoded["p1"]) = << <<7>>, <<8>> >>
    /\ CamPayloads(decoded["p2"]) = << <<9>> >>
    /\ recv_pc["p2"] = "done"
    /\ client_camera_data = << [k |-> "p1", v |-> <<8>>] >>
    /\ get_latest_camera_data = Some(<<8>>)

\* ---------------------------------------------------------------- C13
\* recv_data of a has read a timestamp and stores its latency
PingStep(a) == recv_pc[a] = "value" /\ recv_pc'[a] = "loop"

\* the last n elements of q
LastN(q, n) == SubSeq(q, Len(q) - Min(Len(q), n) + 1, Len(q))

\* the timestamp frame recv_data of a is reading
PingRead(a) == sent[a][Len(decoded[a]) + 1]

\* C13: each timestamp received appends its latency to the shared history,
\* which keeps the last 100 samples in arrival order (the oldest is dropped
\* when it is full), and overwrites the slot of the sending peer alone;
\* nothing else changes the history; get_latest_latency_data is the mean of
\* the samples kept, and 0.0 when there is none.
C13_LatencyHistory ==
    /\ [](/\ Len(latency_history) <= HistoryMaxLen
          /\ get_latest_latency_data.num * Len(latency_history) =
                 get_latest_latency_data.den * SeqSum(latency_history)
          /\ latency_history = <<>> => get_latest_latency_data.num = 0)
    /\ [][\A a \in Addrs :
            PingStep(a) =>
                LET l == (now - PingRead(a).val[1]) * 1000
                IN /\ PingRead(a).tag = "t"
                   /\ latency_history' =
                          LastN(Append(latency_history, l), HistoryMaxLen)
                   /\ DictGet(client_latency_time', a) = l
                   /\ \A b \in Addrs \ {a} :
                          /\ DictHas(client_latency_time', b) =
                                DictHas(client_latency_time, b)
                          /\ DictHas(client_latency_time, b) =>
                                DictGet(client_latency_time', b) =
                                DictGet(client_latency_time, b)]_vars
    /\ [][(\A a \in Addrs : ~PingStep(a)) =>
             latency_history' = latency_history]_vars

\* the history was one short of full; both peers' timestamps have arrived,
\* the second pushed the oldest sample out, and each peer has its own slot
C13_Witness ==
    /\ Len(latency_history) = HistoryMaxLen
    /\ latency_history[1] = EarlierSamples(2)[2]
    /\ latency_history[HistoryMaxLen - 1] # latency_history[HistoryMaxLen]
    /\ \A a \in Addrs : DictHas(client_latency_time, a)
    /\ DictGet(client_latency_time, "p1") # DictGet(client_latency_time, "p2")

\* C14: every read and write of the registry's shared state (active_clients,
\* the frame and latency tables, the latency history, the selection) is made
\* by a thread holding self.lock: no field is ever touched outside the lock.
\* recv_data reads active_clients after its `with self.lock` block has ended.
C14_AllAccessUnderLock == unlocked_access = {}

\* ---------------------------------------------------------------- C15
\* the recv that completes the tag read of recv_data with an unknown tag
UnknownTagStep(a) ==
    /\ recv_pc[a] = "tag"
    /\ consumed'[a] # consumed[a]
    /\ wire_up[a][1] \notin {TagC, TagT}

\* C15: on a tag byte other than 'c' and 't' the inbound loop consumes exactly
\* that one byte, changes nothing in the registry, neither ends the session
\* nor closes the socket, and goes back to the head of its loop, where (the
\* flag still set) the next byte is read as the next tag.
C15_UnknownTagSkipped ==
    /\ [](\A a \in Addrs :
            recv_pc[a] = "tag" => size[a] = DATA_TYPE_SIZE /\ data[a] = <<>>)
    /\ [][\A a \in Addrs :
            /\ UnknownTagStep(a) =>
                 /\ consumed'[a] = consumed[a] + 1
                 /\ wire_up'[a] = Tail(wire_up[a])
                 /\ serverVars' = serverVars
                 /\ decoded' = decoded
                 /\ sock'[a] = "open"
                 /\ InList(active_clients', a)
                 /\ recv_pc'[a] = "loop"
            /\ (recv_pc[a] = "loop" /\ recv_pc'[a] # "loop" /\ recv_data_running) =>
                 recv_pc'[a] = "tag"
         ]_vars

\* a stray byte was skipped and the byte after it was taken as the tag 't'
C15_Witness ==
    /\ recv_pc["p1"] = "value"
    /\ consumed["p1"] = 2
    /\ decoded["p1"] = <<>>
    /\ sock["p1"] = "open"
    /\ InList(active_clients, "p1")

\* ---------------------------------------------------------------- C16
\* send_data of the session leaves its loop
OutboundEnds(a) == send_pc[a] \in {"loop", "send"} /\ send_pc'[a] = "done"
\* recv_data of the session leaves its loop
InboundEnds(a) ==
    recv_pc[a] \in RecvStates \cup {"loop"} /\ recv_pc'[a] = "finally"
\* recv_data of the session runs its finally block or closes the socket
InboundCleanup(a) ==
    \/ recv_pc[a] = "finally" /\ recv_pc'[a] = "close"
    \/ recv_pc[a] = "close" /\ recv_pc'[a] = "done"

\* C16: the two loops of a session end independently.  When the outbound loop
\* ends, the inbound loop stays where it is and the session's entries stay in
\* the registry; when the inbound loop ends and cleans up, the outbound loop
\* stays where it is.  A loop leaves only on a failure of its own socket
\* operation or on reading the cleared running flag.
C16_LoopsEndIndependently ==
    [][\A a \in Addrs :
         /\ OutboundEnds(a) =>
              /\ recv_pc'[a] = recv_pc[a]
              /\ serverVars' = serverVars
              /\ sock'[a] = sock[a]
              /\ (send_pc[a] = "send" /\ SendFails(a))
                    \/ (send_pc[a] = "loop" /\ ~recv_data_running)
         /\ InboundEnds(a) =>
              /\ send_pc'[a] = send_pc[a]
              /\ (recv_pc[a] \in RecvStates /\ RecvFails(a))
                    \/ (recv_pc[a] = "loop" /\ ~recv_data_running)
         /\ InboundCleanup(a) => send_pc'[a] = send_pc[a]
     ]_vars

\* the outbound loop has ended on a write failure; the inbound loop is still
\* receiving and the session is still registered, the server still running
C16_Witness ==
    /\ send_pc["p1"] = "done"
    /\ recv_pc["p1"] = "payload"
    /\ InList(active_clients, "p1")
    /\ recv_data_running
    /\ sock["p1"] = "open" /\ peer["p1"] = "open"
    /\ decoded["p1"] # <<>>

\* ---------------------------------------------------------------- C17
Last(q) == q[Len(q)]
\* the frames alternate, beginning with a ping: a prefix of (ping frame)*
PingFramePrefix(fs) ==
    \A i \in DOMAIN fs : fs[i].tag = IF i % 2 = 1 THEN "t" ELSE "c"

\* C17: what a peer has written on its connection is always a prefix of
\* (TimingPing CameraFrame)*: pings and camera frames alternate, each camera
\* frame comes right after the ping written in the same cycle of send_loop,
\* and the bytes on the wire are those frames' bytes and nothing else.
C17_PingBeforeEveryFrame ==
    /\ [](\A a \in Addrs :
            /\ PingFramePrefix(sent[a])
            /\ send_loop_pc[a] = "send_c" =>
                 sent[a] # <<>> /\ Last(sent[a]).tag = "t"
            /\ (peer[a] = "open" /\ sock[a] \in {"backlog", "open"}) =>
                 /\ consumed[a] + Len(wire_up[a]) = Len(StreamBytes(sent[a]))
                 /\ wire_up[a] = SubSeq(StreamBytes(sent[a]), consumed[a] + 1,
                                        Len(StreamBytes(sent[a]))))
    /\ [][\A a \in Addrs :
            sent'[a] # sent[a] =>
              /\ Len(sent'[a]) = Len(sent[a]) + 1
              /\ SubSeq(sent'[a], 1, Len(sent[a])) = sent[a]
              /\ wire_up'[a] = wire_up[a] \o FrameBytes(Last(sent'[a]))
              /\ IF Last(sent'[a]).tag = "t"
                 THEN send_loop_pc[a] = "send_t" /\ send_loop_pc'[a] = "send_c"
                 ELSE /\ send_loop_pc[a] = "send_c" /\ send_loop_pc'[a] = "read"
                      /\ FrameBytes(Last(sent'[a])) = target_camera_data[a][1]
         ]_vars

\* two whole cycles written: ping, frame, ping, frame
C17_Witness ==
    /\ Len(sent["p1"]) = 4
    /\ sent["p1"][3].tag = "t" /\ sent["p1"][4].tag = "c"
    /\ sent["p1"][2].val = <<TagC>>
    /\ sent["p1"][4].val = <<TagT, 7>>

\* ---------------------------------------------------------------- C18
\* C18: a cycle of send_loop reads the requested index once, at its start.
\* When no camera has that index, or the capture gives no frame, the cycle
\* writes nothing and sets the requested index back to 1; in a cycle that
\* writes, the camera frame written is the one captured in that cycle from
\* the camera whose index is the value read.
C18_FrameOfRequestedCameraOrReset ==
    [][\A a \in Addrs :
         /\ (send_loop_pc[a] = "read" /\ send_loop_pc'[a] = "capture") =>
              current_request_num'[a] = requested_camera_num[a]
         /\ (send_loop_pc[a] = "capture" /\ send_loop_pc'[a] = "send_t") =>
              /\ current_request_num[a] \in 1..NumCameras
              /\ Len(captured'[a]) = Len(captured[a]) + 1
              /\ Last(captured'[a]).num = current_request_num[a]
              /\ target_camera_data'[a] = capture_and_encode(Last(captured'[a]).frame)
              /\ target_camera_data'[a] # None
         /\ (send_loop_pc[a] = "capture" /\ send_loop_pc'[a] = "reset") =>
              /\ \/ current_request_num[a] \notin 1..NumCameras
                 \/ capture_and_encode(Last(captured'[a]).frame) = None
              /\ target_camera_data'[a] = None
         /\ (send_loop_pc[a] = "reset" /\ send_loop_pc'[a] = "read") =>
              requested_camera_num'[a] = DefaultRequestedCamera
         /\ send_loop_pc[a] \in {"read", "capture", "reset"} =>
              /\ sent'[a] = sent[a]
              /\ Len(wire_up'[a]) <= Len(wire_up[a])
              /\ send_loop_pc'[a] = "capture" =>
                   current_request_num'[a] \in
                       {current_request_num[a], requested_camera_num[a]}
         /\ (sent'[a] # sent[a] /\ Last(sent'[a]).tag = "c") =>
              /\ Last(captured[a]).num \in 1..NumCameras
              /\ Last(sent'[a]).val = Last(captured[a]).frame[1]
              /\ wire_up'[a] = wire_up[a] \o capture_and_encode(Last(captured[a]).frame)[1]
     ]_vars

\* the peer took up the request for camera 3, which it does not have, and its
\* requested index is 1 again; a frame has been written in another cycle
C18_Witness ==
    /\ last_request = Some(3)
    /\ awaiting["p1"] = None
    /\ requested_camera_num["p1"] = DefaultRequestedCamera
    /\ send_loop_pc["p1"] = "read"
    /\ wire_down["p1"] = <<>>
    /\ sent["p1"] # <<>>
    /\ Last(sent["p1"]).tag = "c"

\* ---------------------------------------------------------------- C19
\* a loop thread of the client is over
Ended(pc) == pc \in {"done", "killed"}
\* both loops and wait_for_termination of the client are over
AgentStopped(a) ==
    Ended(send_loop_pc[a]) /\ Ended(receive_loop_pc[a]) /\ client_pc[a] = "done"
\* the client is connected and its flag has been cleared
FlagCleared(a) == client_pc[a] # "init" /\ ~loop_running[a]

\* C19: a failed send in send_loop, and a failed or empty recv in
\* receive_loop, end that loop with loop_running cleared.  The flag is never
\* set again; a loop that reads it cleared at its loop test ends, an ended
\* loop writes no frame and applies no selection byte, and once the flag is
\* cleared both loops and the main thread eventually stop.
C19_FailureStopsAgent ==
    /\ [][\A a \in Addrs :
            /\ (send_loop_pc[a] \in {"send_t", "send_c"} /\ send_loop_pc'[a] = "done") =>
                 ClientSendFails(a) /\ ~loop_running'[a]
            /\ (receive_loop_pc[a] = "recv" /\ receive_loop_pc'[a] = "done") =>
                 sock[a] = "closed" /\ ~loop_running'[a]
            /\ ~loop_running[a] => ~loop_running'[a]
            /\ (send_loop_pc[a] = "read" /\ ~loop_running[a]) =>
                 send_loop_pc'[a] \in {"read", "done", "killed"}
            /\ (receive_loop_pc[a] = "loop" /\ ~loop_running[a]) =>
                 receive_loop_pc'[a] \in {"loop", "done", "killed"}
            /\ Ended(send_loop_pc[a]) =>
                 /\ Ended(send_loop_pc'[a])
                 /\ sent'[a] = sent[a]
                 /\ Len(wire_up'[a]) <= Len(wire_up[a])
            /\ Ended(receive_loop_pc[a]) =>
                 /\ Ended(receive_loop_pc'[a])
                 /\ Len(wire_down'[a]) >= Len(wire_down[a]) \/ wire_down'[a] = <<>>
                 /\ requested_camera_num'[a] \in
                        {requested_camera_num[a], DefaultRequestedCamera}
         ]_vars
    /\ \A a \in Addrs : FlagCleared(a) ~> AgentStopped(a)

\* the server has gone; the send failed, the flag is cleared, and send_loop,
\* receive_loop and the main thread have all stopped, frames having been sent
C19_Witness ==
    /\ sock["p1"] = "closed"
    /\ ~loop_running["p1"]
    /\ send_loop_pc["p1"] = "done"
    /\ receive_loop_pc["p1"] = "done"
    /\ client_pc["p1"] = "done"
    /\ sent["p1"] # <<>>
    /\ Last(sent["p1"]).tag = "t"

\* ---------------------------------------------------------------- C20
\* a session thread of the server is over (or was never started)
ThreadEnded(pc) == pc \in {"none", "done", "killed"}
\* run() of the server has left its loop and closed the listening socket
ServerShutDown == main_pc \in {"returned", "done"}

\* C20 as stated: on both sides the shutdown path leaves no session socket
\* open: once run() has closed down, and once wait_for_termination is over,
\* every session socket is closed whether or not its loops have ended.
C20_ShutdownClosesEverySocket ==
    /\ ServerShutDown => \A a \in Addrs : sock[a] # "open"
    /\ \A a \in Addrs : client_pc[a] = "done" => peer[a] # "open"

\* C20: a loop that reads the cleared flag at its loop test starts no new
\* iteration, on either side.  The client's shutdown path closes its socket
\* whether or not its loops have ended, and the client always gets there once
\* its flag is cleared.  The server's run() closes only the listening socket:
\* a session socket is closed by its own recv_data or by the end of the
\* process, which always comes once the flag is cleared, and after which no
\* session socket is open and no session thread is left.
C20_ShutdownCooperative ==
    /\ [](\A a \in Addrs :
            /\ client_pc[a] = "done" =>
                 /\ peer[a] # "open"
                 /\ ThreadEnded(send_loop_pc[a]) /\ ThreadEnded(receive_loop_pc[a])
            /\ main_pc = "done" =>
                 /\ sock[a] # "open"
                 /\ ThreadEnded(recv_pc[a]) /\ ThreadEnded(send_pc[a])
            /\ (ServerShutDown /\ sock[a] = "open") =>
                 main_pc = "returned" /\ ~ThreadEnded(recv_pc[a]))
    /\ [][\A a \in Addrs :
            /\ (recv_pc[a] = "loop" /\ ~recv_data_running) =>
                 recv_pc'[a] \in {"loop", "finally", "killed"}
            /\ (send_pc[a] = "loop" /\ ~recv_data_running) =>
                 send_pc'[a] \in {"loop", "done", "killed"}
            /\ (send_loop_pc[a] = "read" /\ ~loop_running[a]) =>
                 send_loop_pc'[a] \in {"read", "done", "killed"}
            /\ (receive_loop_pc[a] = "loop" /\ ~loop_running[a]) =>
                 receive_loop_pc'[a] \in {"loop", "done", "killed"}
            /\ (main_pc = "exit" /\ main_pc' = "returned") =>
                 /\ recv_pc' = recv_pc /\ send_pc' = send_pc
                 /\ (sock[a] = "open" => sock'[a] = "open")
            /\ (client_pc[a] = "closing" /\ client_pc'[a] = "done") =>
                 peer'[a] = "closed"
         ]_vars
    /\ \A a \in Addrs : FlagCleared(a) ~> (client_pc[a] = "done")
    /\ ~recv_data_running ~> (main_pc = "done")

\* both programs are over and no socket is open; the client closed its socket
\* while its receive_loop was still waiting in recv
C20_Witness ==
    /\ main_pc = "done"
    /\ client_pc["p1"] = "done"
    /\ sock["p1"] = "closed" /\ peer["p1"] = "closed"
    /\ receive_loop_pc["p1"] = "killed"
    /\ recv_pc["p1"] = "done"
    /\ sent["p1"] # <<>>

\* ---------------------------------------------------------------- C21
\* the accept poll at which the idle timeout clears the running flag
IdleFire == PollStep /\ recv_data_running /\ ~recv_data_running'
\* accept() returns the connection of a
AcceptStep(a) == sock[a] = "backlog" /\ sock'[a] = "open"

ResetStep(a) == send_loop_pc[a] = "reset" /\ send_loop_pc'[a] = "read"

\* C22: the reset of send_loop overwrites only the index its cycle read and
\* found no frame for: an index receive_loop has written since that read is
\* not overwritten.  The reset is an unconditional write made under a second
\* acquisition of the lock: it overwrites whatever the index is by then.
C22_ResetKeepsNewerSelection ==
    [][\A a \in Addrs :
          ResetStep(a) => requested_camera_num[a] = current_request_num[a]]_vars

\* ---------------------------------------------------------------- C23
\* the finally block of recv_data of the session of a
CleanupStep(a) == recv_pc[a] = "finally" /\ recv_pc'[a] = "close"
\* the entries of a list, of a table, that are not those of a
OthersIn(l, a) == SelectSeq(l, LAMBDA x : x # a)
OthersOf(d, a) == SelectSeq(d, LAMBDA e : e.k # a)

\* C23: the cleanup of a session removes the session's connection from
\* active_clients and the entries under its address from the frame and the
\* latency tables, and nothing else: the other peers' entries stay as they
\* are, in their order; the selection, the latency history with the samples
\* of the departed peer, and so the average, are unchanged.
C23_CleanupTouchesOwnEntriesOnly ==
    [][\A a \in Addrs :
          CleanupStep(a) =>
            /\ active_clients' = OthersIn(active_clients, a)
            /\ client_camera_data' = OthersOf(client_camera_data, a)
            /\ client_latency_time' = OthersOf(client_latency_time, a)
            /\ send_camera_request' = send_camera_request
            /\ latency_history' = latency_history
            /\ get_latest_latency_data' = get_latest_latency_data
            /\ recv_data_running' = recv_data_running
     ]_vars

\* p2 sent a ping and a frame and its session was cleaned up: its entries are
\* gone, its sample is still in the history, the entries of p1 are in place
C23_Witness ==
    /\ recv_pc["p2"] \in {"close", "done"}
    /\ \E i, j \in DOMAIN decoded["p2"] :
          decoded["p2"][i].tag = "t" /\ decoded["p2"][j].tag = "c"
    /\ active_clients = <<"p1">>
    /\ client_camera_data = << [k |-> "p1", v |-> <<7>>] >>
    /\ DictHas(client_latency_time, "p1") /\ ~DictHas(client_latency_time, "p2")
    /\ Len(latency_history) = 2
    /\ get_latest_latency_data.den = 2

====
